---- MODULE Spec2Model ----
(***************************************************************************)
(* libsteg (steg.go): least-significant-bit steganography on PNG images.   *)
(*                                                                         *)
(* The state is one StegImage (imgLoaded, imgType, secretBits, newImg)     *)
(* together with the last call (op), its argument (arg), what it returned  *)
(* (err, secretOut) and, for a DoStegEmbed, how the DoStegEmbed right       *)
(* before it, with another secret, ended (earlier).  Strings are sequences of *)
(* bytes (0..255), as Go strings are.  An image is a record                *)
(* [nil, W, H, Pix]: its bounds are (0,0)-(W,H), as those of every image   *)
(* image.Decode returns, and Pix holds one <<R,G,B,A>> tuple of 8-bit      *)
(* values per pixel, row by row as image.RGBA stores them: pixel (x,y) is   *)
(* Pix[y*W + x + 1].  Loaded images are opaque 8-bit images (alpha 255).   *)
(***************************************************************************)
EXTENDS Integers, Sequences, FiniteSets, TLC

VARIABLES imgLoaded, imgType, secretBits, newImg,
          err, secretOut, op, arg, earlier

vars == <<imgLoaded, imgType, secretBits, newImg, err, secretOut, op, arg, earlier>>

(***************************************************************************)
(* Bounds of the model.                                                    *)
(***************************************************************************)
MaxW == 2
MaxSecretLen == 1

(***************************************************************************)
(* Program constants.                                                      *)
(***************************************************************************)
\* "##STOP_STEG##"
stopStegConst == <<35, 35, 83, 84, 79, 80, 95, 83, 84, 69, 71, 35, 35>>

ErrNil == "nil"
ErrNoImage == "no image loaded"
ErrNotEnough == "not enough pixels to hide secret"
ErrNotFound == "error finding embedded secret string"
ErrDecode == "image: unknown format"
ErrAtoi == "strconv.Atoi: invalid syntax"
Panic == "panic"

\* unicode/utf8's RuneError, what ranging over a string yields for a byte
\* that starts no valid encoding
RuneError == 65533

(***************************************************************************)
(* Images.                                                                 *)
(***************************************************************************)
NilImage == [nil |-> TRUE, W |-> 0, H |-> 0, Pix |-> <<>>]

\* color.RGBA{} : what At returns outside the bounds
ZeroColor == <<0, 0, 0, 0>>

InBounds(img, x, y) == 0 <= x /\ x < img.W /\ 0 <= y /\ y < img.H

PixOffset(img, x, y) == y * img.W + x + 1

At(img, x, y) == IF InBounds(img, x, y) THEN img.Pix[PixOffset(img, x, y)] ELSE ZeroColor

\* color.RGBA.RGBA(): each 8-bit channel v widened to 16 bits as v | v<<8
RGBA(c) == <<c[1] * 257, c[2] * 257, c[3] * 257, c[4] * 257>>

uint8(v) == v % 256

\* image.NewRGBA(bounds): every channel zero
NewRGBA(w, h) == [nil |-> FALSE, W |-> w, H |-> h, Pix |-> [i \in 1..(w * h) |-> ZeroColor]]

\* draw.Draw(dst, bounds, src, Min, draw.Over): per channel
\* uint8((d*a/m + s) >> 8), s the source's 16-bit value, d the destination's
\* 8-bit value, a = (m - sa)*0x101, m = 0xffff
DrawOver(dst, src) ==
    [dst EXCEPT !.Pix = [i \in 1..(dst.W * dst.H) |->
        LET s == RGBA(src.Pix[i])
            d == dst.Pix[i]
            a == (65535 - s[4]) * 257
        IN  [k \in 1..4 |-> uint8(((d[k] * a) \div 65535 + s[k]) \div 256)]]]

(***************************************************************************)
(* Serialising the secret.                                                 *)
(***************************************************************************)
\* One step of ranging over a string: the rune at byte i and its width.
\* One- and two-byte encodings are decoded; a byte that starts neither
\* yields RuneError of width 1 (the byte values of the model are below 0xE0,
\* where three-byte encodings start).
DecodeRune(s, i) ==
    LET b == s[i]
    IN  IF b < 128 THEN [rune |-> b, width |-> 1]
        ELSE IF b >= 194 /\ b <= 223 /\ i < Len(s) /\ s[i + 1] >= 128 /\ s[i + 1] <= 191
             THEN [rune |-> (b % 32) * 64 + (s[i + 1] % 64), width |-> 2]
             ELSE [rune |-> RuneError, width |-> 1]

\* the binary digits of n, most significant first, no leading zero
RECURSIVE Binary(_)
Binary(n) == IF n < 2 THEN <<IF n = 1 THEN "1" ELSE "0">>
             ELSE Append(Binary(n \div 2), IF n % 2 = 1 THEN "1" ELSE "0")

\* fmt's %.8b : at least 8 digits, zero padded on the left
RECURSIVE PadLeft(_, _)
PadLeft(digits, n) == IF Len(digits) >= n THEN digits ELSE PadLeft(<<"0">> \o digits, n)

Format8b(c) == PadLeft(Binary(c), 8)

\* the digits of the runes from byte i on
RECURSIVE stringToBinaryFrom(_, _)
stringToBinaryFrom(s, i) ==
    IF i > Len(s) THEN <<>>
    ELSE LET d == DecodeRune(s, i)
         IN  Format8b(d.rune) \o stringToBinaryFrom(s, i + d.width)

stringToBinary(s) == stringToBinaryFrom(s, 1)

\* strconv.Atoi on one character
Atoi(c) == IF c = "0" THEN [j |-> 0, ok |-> TRUE]
           ELSE IF c = "1" THEN [j |-> 1, ok |-> TRUE]
           ELSE [j |-> 0, ok |-> FALSE]

\* the loop stops at the first string Atoi rejects, keeping the ints before it
stringsToInts(s) ==
    LET bad == {i \in 1..Len(s) : ~Atoi(s[i]).ok}
        n == IF bad = {} THEN Len(s) ELSE (CHOOSE i \in bad : \A k \in bad : i <= k) - 1
    IN  [ints |-> [i \in 1..n |-> Atoi(s[i]).j],
         err |-> IF bad = {} THEN ErrNil ELSE ErrAtoi]

(***************************************************************************)
(* Embedding.  A method is an operator from the StegImage                   *)
(* s = [imgLoaded, imgType, secretBits, newImg] to the StegImage it leaves  *)
(* and the error it returns.                                                *)
(***************************************************************************)
\* A faulty createMutableImage: it keeps an output image the StegImage already
\* holds instead of copying the source anew.
createMutableImageReusing(s) ==
    IF s.imgLoaded.nil THEN [s |-> s, err |-> ErrNoImage]
    ELSE IF ~s.newImg.nil THEN [s |-> s, err |-> ErrNil]
    ELSE [s |-> [s EXCEPT !.newImg =
                    DrawOver(NewRGBA(s.imgLoaded.W, s.imgLoaded.H), s.imgLoaded)],
          err |-> ErrNil]

createMutableImage(s) ==
    IF s.imgLoaded.nil THEN [s |-> s, err |-> ErrNoImage]
    ELSE [s |-> [s EXCEPT !.newImg =
                    DrawOver(NewRGBA(s.imgLoaded.W, s.imgLoaded.H), s.imgLoaded)],
          err |-> ErrNil]

loadSecret(s, secret) ==
    LET secretWordBin == stringToBinary(secret \o stopStegConst)
        r == stringsToInts(secretWordBin)
    IN  [s |-> [s EXCEPT !.secretBits = r.ints], err |-> r.err]

\* A faulty manipulateLSB: a 1 bit is added to the value instead of set in it.
manipulateLSBAdding(i, bit) ==
    LET newI == uint8(i)
    IN  IF bit = 0 THEN newI - (newI % 2)
        ELSE uint8(newI + 1)

manipulateLSB(i, bit) ==
    LET newI == uint8(i)
    IN  IF bit = 0 THEN newI - (newI % 2)
        ELSE newI - (newI % 2) + 1

\* The body of the inner loop at one pixel, entered with bits left: the
\* colour SetRGBA stores there and the secretIndex it leaves.
embedPixel(img, bits, secretIndex, x, y) ==
    LET c == RGBA(At(img, x, y))
        n == Len(bits)
        newR == manipulateLSB(c[1], bits[secretIndex + 1])
        i1 == secretIndex + 1
        newG == IF i1 < n THEN manipulateLSB(c[2], bits[i1 + 1]) ELSE uint8(c[2])
        i2 == IF i1 < n THEN i1 + 1 ELSE i1
        newB == IF i2 < n THEN manipulateLSB(c[3], bits[i2 + 1]) ELSE uint8(c[3])
        i3 == IF i2 < n THEN i2 + 1 ELSE i2
    IN  [color |-> <<newR, newG, newB, uint8(c[4] \div 257)>>, secretIndex |-> i3]

\* A faulty scan: y outer, x inner.
ScanNumberRowMajor(img, x, y) == y * img.W + x

\* The place of pixel (x,y) in the scan
\*   for x := Min.X; x < Max.X; x++ { for y := Min.Y; y < Max.Y; y++ { .. } }
ScanNumber(img, x, y) == x * img.H + y

\* The two loops.  Every pixel they visit with bits left takes three of them
\* (or the last ones), so pixel (x,y) is entered with
\* secretIndex = 3*ScanNumber(x,y); the first pixel that finds none left
\* breaks the inner loop, and the test after it breaks the outer one.
embedLoops(img, bits) ==
    [img EXCEPT !.Pix = [i \in 1..(img.W * img.H) |->
        LET x == (i - 1) % img.W
            y == (i - 1) \div img.W
            secretIndex == 3 * ScanNumber(img, x, y)
        IN  IF secretIndex < Len(bits)
            THEN embedPixel(img, bits, secretIndex, x, y).color
            ELSE img.Pix[i]]]

embedSecret(s) ==
    IF Len(s.secretBits) > s.newImg.W * s.newImg.H * 3
    THEN [s |-> s, err |-> ErrNotEnough]
    ELSE [s |-> [s EXCEPT !.newImg = embedLoops(s.newImg, s.secretBits)],
          err |-> ErrNil]

\* A faulty DoStegEmbed: the secret is serialised before the image is looked at.
DoStegEmbedOnSerialisingFirst(s, secretIn) ==
    LET r1 == loadSecret(s, secretIn)
    IN  IF r1.err # ErrNil THEN r1
        ELSE LET r2 == createMutableImage(r1.s)
             IN  IF r2.err # ErrNil THEN r2
                 ELSE embedSecret(r2.s)

DoStegEmbedOn(s, secretIn) ==
    LET r1 == createMutableImage(s)
    IN  IF r1.err # ErrNil THEN r1
        ELSE LET r2 == loadSecret(r1.s, secretIn)
             IN  IF r2.err # ErrNil THEN r2
                 ELSE embedSecret(r2.s)

(***************************************************************************)
(* Extraction.                                                             *)
(***************************************************************************)
getBitsFromRGB(values) ==
    [k \in 1..Len(values) |-> IF values[k] % 2 = 0 THEN 0 ELSE 1]

\* the concatenation f[lo] \o .. \o f[hi] of a sequence of sequences
RECURSIVE JoinRange(_, _, _)
JoinRange(f, lo, hi) ==
    IF lo > hi THEN <<>>
    ELSE IF lo = hi THEN f[lo]
    ELSE LET mid == (lo + hi) \div 2
         IN  JoinRange(f, lo, mid) \o JoinRange(f, mid + 1, hi)

Join(f) == JoinRange(f, 1, Len(f))

\* The bits the two loops append,
\*   for x := Min.X; x <= Max.X; x++ { for y := Min.Y; y <= Max.Y; y++ { .. } }
\* three for each of the (W+1)*(H+1) points visited, q-th visited first.
scanBits(img) ==
    Join([q \in 1..((img.W + 1) * (img.H + 1)) |->
            LET x == (q - 1) \div (img.H + 1)
                y == (q - 1) % (img.H + 1)
                c == RGBA(At(img, x, y))
            IN  getBitsFromRGB(<<c[1], c[2], c[3]>>)])

\* string(tmp) of an int below 256: the UTF-8 encoding of that code point
RuneToString(r) == IF r < 128 THEN <<r>> ELSE <<192 + (r \div 64), 128 + (r % 64)>>

Pow2(k) == CASE k = 0 -> 1 [] k = 1 -> 2 [] k = 2 -> 4 [] k = 3 -> 8
             [] k = 4 -> 16 [] k = 5 -> 32 [] k = 6 -> 64 [] k = 7 -> 128

\* the value of tmp after the iterations b..7 of the loop, from 0
RECURSIVE charCode(_, _)
charCode(bits, b) ==
    IF b < 8 THEN (IF bits[b + 1] = 1 THEN Pow2(7 - b) ELSE 0) + charCode(bits, b + 1)
    ELSE 0

getCharFromBits(bits) == RuneToString(charCode(bits, 0))

\* A slice is its elements and the capacity of its backing array; the array
\* past the elements holds zeroes.  bits[i:i+8] panics when i+8 exceeds the
\* capacity and otherwise may reach past the length: only the last batch can.
bitsToString(sl) ==
    LET n == Len(sl.elems)
        batches == (n + 7) \div 8
    IN  IF 8 * batches > sl.cap THEN [panic |-> TRUE, out |-> <<>>]
        ELSE [panic |-> FALSE,
              out |-> Join([j \in 1..batches |->
                        getCharFromBits([k \in 1..8 |->
                            LET i == 8 * (j - 1)
                            IN  IF i + k <= n THEN sl.elems[i + k] ELSE 0])])]

\* strings.Index: the 0-based offset of the first occurrence of sep in s, or -1
Index(s, sep) ==
    LET hits == {i \in 0..(Len(s) - Len(sep)) : SubSeq(s, i + 1, i + Len(sep)) = sep}
    IN  IF hits = {} THEN -1 ELSE CHOOSE i \in hits : \A k \in hits : i <= k

Contains(s, sep) == Index(s, sep) >= 0

\* strings.Split for a non-empty separator
RECURSIVE Split(_, _)
Split(s, sep) ==
    LET m == Index(s, sep)
    IN  IF m < 0 THEN <<s>>
        ELSE <<SubSeq(s, 1, m)>> \o Split(SubSeq(s, m + Len(sep) + 1, Len(s)), sep)

RoundUp8(n) == n + ((8 - (n % 8)) % 8)

\* The capacity append leaves a slice of n elements with is the runtime's:
\* at least n, with or without room for a last whole batch of eight.
AppendCapacities(n) == {n, RoundUp8(n)}

\* what cap(bitsOut) may be after the scan of img
ScanCapacities(img) ==
    IF img.nil THEN {0} ELSE AppendCapacities(3 * (img.W + 1) * (img.H + 1))

\* cap: the capacity of bitsOut after the scan.  s.imgLoaded.Bounds() on a
\* nil image panics.
getSecretString(s, cap) ==
    IF s.imgLoaded.nil THEN [panic |-> TRUE, secret |-> <<>>, err |-> Panic]
    ELSE LET bitsOut == scanBits(s.imgLoaded)
             r == bitsToString([elems |-> bitsOut, cap |-> cap])
         IN  IF r.panic THEN [panic |-> TRUE, secret |-> <<>>, err |-> Panic]
             ELSE IF Contains(r.out, stopStegConst)
                  THEN [panic |-> FALSE, secret |-> Split(r.out, stopStegConst)[1], err |-> ErrNil]
                  ELSE [panic |-> FALSE, secret |-> <<>>, err |-> ErrNotFound]

DoStegExtractOn(s, cap) ==
    LET r == getSecretString(s, cap)
    IN  IF r.err # ErrNil THEN [r EXCEPT !.secret = <<>>] ELSE r

(***************************************************************************)
(* PNG transport of the output image.                                      *)
(***************************************************************************)
\* png.Encode of an opaque *image.RGBA writes 8-bit truecolour: the R, G, B
\* samples of each pixel, row by row.  The output image is opaque whenever
\* the source is.
PngEncode(img) ==
    [W |-> img.W, H |-> img.H,
     samples |-> [j \in 1..(img.W * img.H) |->
                    LET c == img.Pix[j] IN <<c[1], c[2], c[3]>>]]

\* image.Decode of 8-bit truecolour: an *image.RGBA with alpha 0xff
PngDecode(png) ==
    [nil |-> FALSE, W |-> png.W, H |-> png.H,
     Pix |-> [i \in 1..(png.W * png.H) |->
                LET c == png.samples[i] IN <<c[1], c[2], c[3], 255>>]]

WriteNewImageToB64(s) == PngEncode(s.newImg)

LoadImageFromB64(s, b64Img) ==
    [s |-> [s EXCEPT !.imgLoaded = PngDecode(b64Img), !.imgType = "png"], err |-> ErrNil]

\* var tamperedImg StegImage
ZeroStegImage == [imgLoaded |-> NilImage, imgType |-> "", secretBits |-> <<>>, newImg |-> NilImage]

Base64ExtractOn(imageB64In, cap) ==
    LET l == LoadImageFromB64(ZeroStegImage, imageB64In)
    IN  IF l.err # ErrNil THEN [panic |-> FALSE, secret |-> <<>>, err |-> l.err]
        ELSE DoStegExtractOn(l.s, cap)

(***************************************************************************)
(* Inputs.                                                                 *)
(***************************************************************************)
\* the pixels a payload of n bytes and the sentinel fills: 40 for n = 2,
\* where the bits fill them exactly
PayloadPixels(n) == (8 * (n + Len(stopStegConst)) + 2) \div 3

\* One column: too short for any payload; one pixel short of PayloadPixels(2);
\* long enough for a 14-byte secret.  Several columns: PayloadPixels(2)
\* pixels (or the most that fit in w columns).
ColumnHeights == {1, PayloadPixels(2) - 1, PayloadPixels(14) + 3}

Dims == {<<1, h>> : h \in ColumnHeights}
          \cup {<<w, PayloadPixels(2) \div w>> : w \in 2..MaxW}

\* The decoded file: an opaque image whose channels mix 255, 0, an even and
\* an odd value.
Shades == <<255, 0, 128, 77>>

PixelValue(x, y, k) == Shades[((x + 2 * y + k) % 4) + 1]

CleanImage(w, h) ==
    [nil |-> FALSE, W |-> w, H |-> h,
     Pix |-> [i \in 1..(w * h) |->
                LET x == (i - 1) % w
                    y == (i - 1) \div w
                IN  <<PixelValue(x, y, 1), PixelValue(x, y, 2), PixelValue(x, y, 3), 255>>]]

\* 'a' and 0xC4, the first byte of a two-byte encoding
Alphabet == {97, 196}

RECURSIVE StringsUpTo(_)
StringsUpTo(n) ==
    IF n = 0 THEN {<<>>}
    ELSE LET shorter == StringsUpTo(n - 1)
         IN  shorter \cup {Append(s, b) : s \in shorter, b \in Alphabet}

\* "aa", "Karl", U+0100, and a secret that holds the sentinel
SpecialSecrets == {<<97, 97>>, <<75, 97, 114, 108>>, <<196, 128>>, <<97>> \o stopStegConst}

Secrets == StringsUpTo(MaxSecretLen) \cup SpecialSecrets

(***************************************************************************)
(* The state machine.                                                      *)
(***************************************************************************)
Self == [imgLoaded |-> imgLoaded, imgType |-> imgType,
         secretBits |-> secretBits, newImg |-> newImg]

Becomes(s) ==
    /\ imgLoaded' = s.imgLoaded
    /\ imgType' = s.imgType
    /\ secretBits' = s.secretBits
    /\ newImg' = s.newImg

Init ==
    /\ imgLoaded = NilImage
    /\ imgType = ""
    /\ secretBits = <<>>
    /\ newImg = NilImage
    /\ err = ErrNil
    /\ secretOut = <<>>
    /\ op = "new"
    /\ arg = <<>>
    /\ earlier = "none"

\* LoadImageFromFile, the file a PNG
LoadImageFromFile ==
    /\ \E d \in Dims :
          Becomes([Self EXCEPT !.imgLoaded = CleanImage(d[1], d[2]), !.imgType = "png"])
    /\ err' = ErrNil
    /\ op' = "load"
    /\ secretOut' = <<>>
    /\ arg' = <<>>
    /\ earlier' = "none"

\* LoadImageFromFile, image.Decode failing: it returns nil, "", err
LoadImageDecodeFails ==
    /\ Becomes([Self EXCEPT !.imgLoaded = NilImage, !.imgType = ""])
    /\ err' = ErrDecode
    /\ op' = "load"
    /\ secretOut' = <<>>
    /\ arg' = <<>>
    /\ earlier' = "none"

DoStegEmbed ==
    \E secretIn \in Secrets :
        LET r == DoStegEmbedOn(Self, secretIn)
        IN  /\ Becomes(r.s)
            /\ err' = r.err
            /\ op' = "embed"
            /\ arg' = secretIn
            /\ secretOut' = <<>>
            /\ earlier' = IF op = "embed" /\ arg # secretIn
                          THEN (IF err = ErrNil THEN "ok" ELSE "failed")
                          ELSE "none"

DoStegExtract ==
    \E cap \in ScanCapacities(imgLoaded) :
        LET r == DoStegExtractOn(Self, cap)
        IN  /\ secretOut' = r.secret
            /\ err' = r.err
            /\ op' = "extract"
            /\ arg' = <<>>
            /\ earlier' = "none"
            /\ UNCHANGED <<imgLoaded, imgType, secretBits, newImg>>

\* WriteNewImageToB64 on this StegImage, then Base64Extract of what it wrote
Base64Extract ==
    /\ ~newImg.nil
    /\ \E cap \in ScanCapacities(newImg) :
        LET r == Base64ExtractOn(WriteNewImageToB64(Self), cap)
        IN  /\ secretOut' = r.secret
            /\ err' = r.err
            /\ op' = "b64extract"
            /\ earlier' = "none"
            /\ UNCHANGED <<imgLoaded, imgType, secretBits, newImg, arg>>

Next ==
    \/ LoadImageFromFile
    \/ LoadImageDecodeFails
    \/ DoStegEmbed
    \/ DoStegExtract
    \/ Base64Extract

Spec == Init /\ [][Next]_vars

(***************************************************************************)
(* What the properties are stated with.                                    *)
(***************************************************************************)
PrintableASCII(s) == \A i \in 1..Len(s) : s[i] >= 32 /\ s[i] <= 126

\* the 8 bits of a byte, most significant first
ByteBits(b) == [k \in 1..8 |-> (b \div Pow2(8 - k)) % 2]

\* the bits of each byte of s, in order
BytesToBits(s) == Join([i \in 1..Len(s) |-> ByteBits(s[i])])

\* payload bit k (from 0) lies in the channel ChannelOf(k) of the pixel
\* PixelOf(img, k), the (k div 3)-th of the scan x outer, y inner
ChannelOf(k) == (k % 3) + 1

PixelOf(img, k) == PixOffset(img, (k \div 3) \div img.H, (k \div 3) % img.H)

\* the place in the payload of channel c of pixel (x,y)
BitNumber(img, x, y, c) == 3 * (x * img.H + y) + (c - 1)

Abs(n) == IF n < 0 THEN -n ELSE n

\* the output a StegImage that never held anything but this source gives
FreshEmbed(source, type, secret) ==
    DoStegEmbedOn([ZeroStegImage EXCEPT !.imgLoaded = source, !.imgType = type], secret).s.newImg

\* the text bitsToString decodes from the low bits of img, when it returns
DecodedText(img) ==
    LET bitsOut == scanBits(img)
    IN  bitsToString([elems |-> bitsOut, cap |-> RoundUp8(Len(bitsOut))]).out

(***************************************************************************)
(* C1.  Round trip: for every opaque source image and every printable      *)
(* ASCII secret that fits the capacity, 8*(len+13) <= W*H*3, also when the  *)
(* payload spans more than one pixel column, extracting from the image a    *)
(* successful DoStegEmbed produced succeeds and returns exactly the secret.  *)
(***************************************************************************)
RoundTrip ==
    [][(/\ op = "embed" /\ err = ErrNil
        /\ PrintableASCII(arg)
        /\ 8 * (Len(arg) + Len(stopStegConst)) <= imgLoaded.W * imgLoaded.H * 3
        /\ op' = "b64extract")
       => (err' = ErrNil /\ secretOut' = arg)]_vars

(***************************************************************************)
(* C2.  Capacity boundary: on a loaded W x H image DoStegEmbed(secret)      *)
(* returns 'not enough pixels to hide secret' exactly when                  *)
(* 8*(len(secret)+13) > W*H*3; otherwise (equality included) it succeeds    *)
(* and every payload bit is written.                                        *)
(***************************************************************************)
CapacityBoundary ==
    (op = "embed" /\ ~imgLoaded.nil) =>
        LET n == 8 * (Len(arg) + Len(stopStegConst))
            payload == BytesToBits(arg \o stopStegConst)
        IN  /\ (err = ErrNotEnough) <=> (n > imgLoaded.W * imgLoaded.H * 3)
            /\ (n <= imgLoaded.W * imgLoaded.H * 3) =>
                  /\ err = ErrNil
                  /\ \A k \in 0..(n - 1) :
                        newImg.Pix[PixelOf(newImg, k)][ChannelOf(k)] % 2 = payload[k + 1]

(***************************************************************************)
(* C3.  Bounded perturbation: after a successful DoStegEmbed every red,     *)
(* green and blue channel of every pixel of the output has the upper 7 bits *)
(* of the source's, so the two values differ by 0 or 1.                     *)
(***************************************************************************)
BoundedPerturbation ==
    (op = "embed" /\ err = ErrNil) =>
        /\ newImg.W = imgLoaded.W /\ newImg.H = imgLoaded.H
        /\ \A i \in 1..(imgLoaded.W * imgLoaded.H) : \A c \in 1..3 :
              /\ newImg.Pix[i][c] \div 2 = imgLoaded.Pix[i][c] \div 2
              /\ Abs(newImg.Pix[i][c] - imgLoaded.Pix[i][c]) <= 1

\* a successful embed that cleared the low bit of a 255 and set that of a 0
BoundedPerturbationWitness ==
    /\ op = "embed" /\ err = ErrNil
    /\ \E i \in 1..(imgLoaded.W * imgLoaded.H) : \E c \in 1..3 :
          imgLoaded.Pix[i][c] = 255 /\ newImg.Pix[i][c] = 254
    /\ \E i \in 1..(imgLoaded.W * imgLoaded.H) : \E c \in 1..3 :
          imgLoaded.Pix[i][c] = 0 /\ newImg.Pix[i][c] = 1

(***************************************************************************)
(* C4.  Sentinel scan outcome: DoStegExtract, on the loaded image or on the  *)
(* output image sent through base64, succeeds if and only if the text       *)
(* decoded from the low bits contains the sentinel; it then returns the     *)
(* text before the first occurrence; otherwise it returns the empty string  *)
(* and 'error finding embedded secret string'.                              *)
(***************************************************************************)
SentinelScanOutcome ==
    LET img == IF op = "extract" THEN imgLoaded ELSE PngDecode(WriteNewImageToB64(Self))
    IN  ((op = "extract" /\ ~imgLoaded.nil) \/ op = "b64extract") =>
            LET text == DecodedText(img)
                first == Index(text, stopStegConst)
            IN  IF first >= 0
                THEN err = ErrNil /\ secretOut = SubSeq(text, 1, first)
                ELSE err = ErrNotFound /\ secretOut = <<>>

(***************************************************************************)
(* C5.  Failure atomicity: a DoStegEmbed that returns an error leaves the   *)
(* loaded image, the output image and the stored payload bits as they were. *)
(***************************************************************************)
FailureAtomicity ==
    [][(op' = "embed" /\ err' # ErrNil) =>
          (imgLoaded' = imgLoaded /\ newImg' = newImg /\ secretBits' = secretBits)]_vars

(***************************************************************************)
(* C6.  No-source embed: with no image loaded DoStegEmbed returns           *)
(* 'no image loaded' whatever the secret, and it has neither serialised the *)
(* secret nor created an output image: secretBits and newImg are what they  *)
(* were.                                                                    *)
(***************************************************************************)
NoSourceEmbed ==
    [][(op' = "embed" /\ imgLoaded.nil) =>
          /\ err' = ErrNoImage
          /\ secretBits' = secretBits
          /\ newImg' = newImg
          /\ imgLoaded' = imgLoaded /\ imgType' = imgType]_vars

\* DoStegEmbed has been refused on a StegImage that lost its image after an
\* earlier embed: the output and the bits of that embed are still there, and
\* the bits are not those of the refused secret
NoSourceEmbedWitness ==
    /\ op = "embed" /\ imgLoaded.nil /\ err = ErrNoImage
    /\ ~newImg.nil
    /\ secretBits # <<>>
    /\ secretBits # loadSecret(Self, arg).s.secretBits

(***************************************************************************)
(* C7.  Determinism and history independence: the output of a successful    *)
(* DoStegEmbed(secret) is the one a StegImage that only ever loaded this    *)
(* source gives for this secret, whatever DoStegEmbed calls, successful or  *)
(* failed, were made before.                                                *)
(***************************************************************************)
HistoryIndependence ==
    (op = "embed" /\ err = ErrNil) => newImg = FreshEmbed(imgLoaded, imgType, arg)

\* a successful embed right after a successful DoStegEmbed of another secret,
\* whose payload ends a byte or more before the last channel
HistoryIndependenceWitness ==
    /\ op = "embed" /\ err = ErrNil
    /\ earlier = "ok"
    /\ Len(secretBits) + 8 <= 3 * imgLoaded.W * imgLoaded.H

(***************************************************************************)
(* C8.  Bit serialisation: for every secret, loadSecret stores the 8 bits,  *)
(* most significant first, of each byte of the secret and then of each byte *)
(* of the sentinel: 8*(bytes of the secret + 13) values, a multiple of 8.   *)
(***************************************************************************)
BitSerialisation ==
    (op = "embed" /\ ~imgLoaded.nil) =>
        /\ Len(secretBits) % 8 = 0
        /\ Len(secretBits) = 8 * (Len(arg) + Len(stopStegConst))
        /\ secretBits = BytesToBits(arg \o stopStegConst)

(***************************************************************************)
(* C9.  Embed placement and frame: after a successful DoStegEmbed of n bits *)
(* into a W x H image, bit k < n is the low bit of channel k mod 3 of the   *)
(* pixel number k div 3 of the scan x outer, y inner; every other red,      *)
(* green or blue channel and every alpha is the source's; the loaded image  *)
(* is not modified.                                                         *)
(***************************************************************************)
EmbedPlacement ==
    [][(op' = "embed" /\ err' = ErrNil) =>
          LET n == Len(secretBits')
              src == imgLoaded
              out == newImg'
          IN  /\ imgLoaded' = imgLoaded
              /\ out.W = src.W /\ out.H = src.H
              /\ \A k \in 0..(n - 1) :
                    out.Pix[PixelOf(out, k)][ChannelOf(k)] % 2 = secretBits'[k + 1]
              /\ \A x \in 0..(src.W - 1) : \A y \in 0..(src.H - 1) :
                    LET i == PixOffset(src, x, y)
                    IN  /\ out.Pix[i][4] = src.Pix[i][4]
                        /\ \A c \in 1..3 :
                              BitNumber(src, x, y, c) >= n => out.Pix[i][c] = src.Pix[i][c]]_vars

\* a successful embed into an image of several columns whose payload ends
\* inside the second column, between two channels of a pixel, and changed
\* the image
EmbedPlacementWitness ==
    /\ op = "embed" /\ err = ErrNil
    /\ imgLoaded.W > 1
    /\ Len(secretBits) > 3 * imgLoaded.H
    /\ Len(secretBits) < 3 * imgLoaded.W * imgLoaded.H
    /\ Len(secretBits) % 3 # 0
    /\ newImg # imgLoaded

(***************************************************************************)
(* C10.  Whole-byte regrouping: for every image size the bit sequence       *)
(* getSecretString hands to bitsToString has a length that is a multiple of *)
(* 8, so no batch bits[i:i+8] reaches past its end.                          *)
(***************************************************************************)
WholeByteRegrouping ==
    (op = "extract" /\ ~imgLoaded.nil) =>
        /\ Len(scanBits(imgLoaded)) % 8 = 0
        /\ err # Panic

====
